---- MODULE Spec2Model ----
(***************************************************************************)
(* Model of the element-tracker client (src/element-tracker-cdn.js):       *)
(* the WebSocketService connection manager (connect / retry / disconnect / *)
(* reset), the transports it creates with their open, close and error      *)
(* callbacks, the retry timers it schedules, and sendElementClick; the     *)
(* inbound messages of a transport, the instructions they carry and the    *)
(* document the instructions change.                                       *)
(***************************************************************************)
EXTENDS Integers, Sequences, FiniteSets, TLC

(***************************************************************************)
(* Bounds of the model.                                                    *)
(***************************************************************************)
\* number of transports that may be alive (created and not yet closed) at
\* the same time; the identity of a closed transport is reused
MaxSockets == 2
\* number of descriptors handed to sendElementClick in one behaviour
MaxClicks == 1
\* number of inbound messages handled in one behaviour
MaxMessages == 2
\* number of direct calls of handleInstruction in one behaviour
MaxInstructions == 1
\* number of callbacks registered per kind
MaxCallbacks == 2
\* number of lapses of time in one behaviour
MaxTicks == 2
\* number of highlight timers pending at a time
MaxHighlights == 2

(***************************************************************************)
(* Program constants.                                                      *)
(***************************************************************************)
maxConnectionAttempts == 3
NormalClosure == 1000
AbnormalClosure == 1006
\* throttle(handleElementClick, 300)
throttleDelay == 300
\* setTimeout(..., 2000) of highlightElement
highlightDelay == 2000

\* urls are sequences of characters, "http://localhost:5203/" is "http:l"
NoUrl == << >>
DefaultUrl == <<"h", "t", "t", "p", ":", "l">>
HttpsUrl == <<"h", "t", "t", "p", "s", ":", "a">>
WsUrl == <<"w", "s", ":", "a">>
WssUrl == <<"w", "s", "s", ":", "a">>
FtpUrl == <<"f", "t", "p", ":", "a">>
Urls == {NoUrl, FtpUrl}

CloseCodes == {NormalClosure, AbnormalClosure}
SockIds == 1..MaxSockets
\* null reference
Null == 0

VARIABLES
    socket,              \* this.socket: Null or the id of a transport
    isConnected,         \* this.isConnected
    isConnecting,        \* this.isConnecting
    connectionAttempts,  \* this.connectionAttempts
    reconnectTimer,      \* this.reconnectTimer is a (possibly fired) handle
    timers,              \* pending retry timers of the event loop
    socks,               \* the transports: readyState and closure url
    sent,                \* descriptors handed to socket.send, in order
    nextClick,           \* descriptors handed to sendElementClick so far
    last,                \* the last step taken and the state before it
    opens,               \* transports opened since the last open / reset
    disconnected,        \* disconnect() returned, connect() not called since
    exhausted,           \* the bound was reached and the last attempt
                         \* closed abnormally, no caller call since
    dropped,             \* descriptors handed over while not connected
    dom,                 \* the document: the markup of its body
    injectedContents,    \* this.injectedContents, in insertion order
    isDynaDubbing,       \* this.isDynaDubbing
    onElementClickCallbacks,  \* registered callbacks: does the callback throw
    onInstructionCallbacks,   \* registered callbacks: does the callback throw
    lastMsg,             \* the last message or instruction handled
    arrived,             \* instructions that arrived, in order (SpecOrder)
    received,            \* messages and instructions handled so far
    enabled,             \* elementTracker.enabled
    throttledClickHandler,  \* elementTracker.throttledClickHandler: Null
                         \* or the position of a listener
    listeners,           \* the click listeners of the document: lastCall
                         \* of each throttled handler
    style,               \* element.style of the elements of the page
    highlightTimers,     \* pending timers of highlightElement
    now,                 \* new Date().getTime()
    ticks,               \* lapses of time so far
    prevProcessed,       \* time of the last processed click, 0 if none
    reenabled,           \* enable() registered a listener since then
    prevBody,            \* time of the last click on body since the
                         \* listener was registered, 0 if none
    prevBodyPassed,      \* that click was due
    through,             \* time of the last click that was due since the
                         \* listener was registered, 0 if none
    lastTrack            \* the last step of the click tracker

progVars == <<socket, isConnected, isConnecting, connectionAttempts,
              reconnectTimer, timers, socks, sent>>
histVars == <<nextClick, last, opens, disconnected, exhausted, dropped>>
vars == <<socket, isConnected, isConnecting, connectionAttempts,
          reconnectTimer, timers, socks, sent,
          nextClick, last, opens, disconnected, exhausted, dropped,
          dom, injectedContents, isDynaDubbing, onElementClickCallbacks,
          onInstructionCallbacks, lastMsg, arrived, received,
          enabled, throttledClickHandler, listeners, style, highlightTimers,
          now, ticks, prevProcessed, reenabled, prevBody, prevBodyPassed,
          through, lastTrack>>

\* the click tracker, the clock and their history
trackerVars == <<enabled, throttledClickHandler, listeners, style,
                 highlightTimers, now, ticks, prevProcessed, reenabled,
                 prevBody, prevBodyPassed, through, lastTrack>>

\* the instruction engine, its observers and their history
engineVars == <<dom, injectedContents, isDynaDubbing,
                onElementClickCallbacks, onInstructionCallbacks,
                lastMsg, arrived, received>>

(***************************************************************************)
(* The program state as one record, so that a handler is a function from   *)
(* the state before it to the state after it.                              *)
(***************************************************************************)
S == [socket |-> socket, isConnected |-> isConnected,
      isConnecting |-> isConnecting,
      connectionAttempts |-> connectionAttempts,
      reconnectTimer |-> reconnectTimer, timers |-> timers,
      socks |-> socks, sent |-> sent]

Becomes(st) ==
    /\ socket' = st.socket
    /\ isConnected' = st.isConnected
    /\ isConnecting' = st.isConnecting
    /\ connectionAttempts' = st.connectionAttempts
    /\ reconnectTimer' = st.reconnectTimer
    /\ timers' = st.timers
    /\ socks' = st.socks
    /\ sent' = st.sent

\* no live transport has this identity: never created, or its close event
\* was delivered (readyState CLOSED, no further event)
ClosedSock == [rs |-> "closed", url |-> NoUrl, endpoint |-> NoUrl,
               closeCode |-> 0]

\* the part of the state before a step that the step is compared with
P == [socket |-> socket, isConnected |-> isConnected,
      isConnecting |-> isConnecting,
      connectionAttempts |-> connectionAttempts,
      ntimers |-> Len(timers)]

(***************************************************************************)
(* The transport (WebSocket) and the timers of the host.                   *)
(***************************************************************************)
\* adminDashboardUrl.replace(/^https?/, 'ws')
Normalize_https(u) ==
    IF Len(u) >= 5 /\ SubSeq(u, 1, 5) = <<"h", "t", "t", "p", "s">>
    THEN <<"w", "s">> \o SubSeq(u, 6, Len(u))
    ELSE IF Len(u) >= 4 /\ SubSeq(u, 1, 4) = <<"h", "t", "t", "p">>
    THEN <<"w", "s">> \o SubSeq(u, 5, Len(u))
    ELSE u

\* adminDashboardUrl.replace(/^http/, 'ws')
Normalize(u) ==
    IF Len(u) >= 4 /\ SubSeq(u, 1, 4) = <<"h", "t", "t", "p">>
    THEN <<"w", "s">> \o SubSeq(u, 5, Len(u))
    ELSE u

HasPrefix(u, p) == Len(u) >= Len(p) /\ SubSeq(u, 1, Len(p)) = p

\* new WebSocket(wsUrl) throws on a url whose scheme is not ws: or wss:
ConstructorThrows(w) ==
    ~ (HasPrefix(w, <<"w", "s", ":">>) \/ HasPrefix(w, <<"w", "s", "s", ":">>))

\* identities free for a new transport
FreeIds(st) ==
    {i \in SockIds : st.socks[i].rs = "closed"}

\* the identity of the next transport; Overflow when MaxSockets are alive
Overflow == 0 - 1
NewId(st) ==
    IF FreeIds(st) = {} THEN Overflow
    ELSE CHOOSE i \in FreeIds(st) : \A j \in FreeIds(st) : i <= j

\* new WebSocket(wsUrl) and this.socket = ...
newWebSocket(st, wsUrl, url) ==
    IF NewId(st) = Overflow THEN [st EXCEPT !.socket = Overflow]
    ELSE [st EXCEPT !.socket = NewId(st),
                    !.socks[NewId(st)] =
                        [rs |-> "connecting", url |-> url,
                         endpoint |-> wsUrl, closeCode |-> 0]]

\* if (this.reconnectTimer) clearTimeout(this.reconnectTimer)
clearTimeout(st) ==
    IF st.reconnectTimer
    THEN SelectSeq(st.timers, LAMBDA t : ~ t.cur)
    ELSE st.timers

\* this.reconnectTimer = setTimeout(function() { self.connect(url) }, 5000)
setTimeout(ts, u) ==
    Append([i \in DOMAIN ts |-> [ts[i] EXCEPT !.cur = FALSE]],
           [url |-> u, cur |-> TRUE])

\* socket.close(...) called by the program
closeSocket(rs) ==
    CASE rs = "connecting" -> "aborting"
      [] rs = "open" -> "closing"
      [] OTHER -> rs

\* socket.close(code, reason): the code the closing handshake is started
\* with; a transport that is closing or closed keeps what it has
close(sock, code) ==
    [sock EXCEPT !.rs = closeSocket(@),
                 !.closeCode = IF sock.rs \in {"connecting", "open"}
                               THEN code ELSE @]

(***************************************************************************)
(* WebSocketService handlers.                                              *)
(***************************************************************************)
\* the catch branch of connect
connectCatch(st, url) ==
    LET st2 == [st EXCEPT !.isConnecting = FALSE]
    IN  IF st2.connectionAttempts < maxConnectionAttempts
        THEN [st2 EXCEPT !.timers = setTimeout(clearTimeout(st2), url),
                         !.reconnectTimer = TRUE]
        ELSE st2

\* connect without the check of the retry bound
connect_noBound(st, u) ==
    LET url == IF u = NoUrl THEN DefaultUrl ELSE u
    IN  IF st.isConnecting THEN st
        ELSE LET st1 == [st EXCEPT !.isConnecting = TRUE,
                                   !.connectionAttempts = @ + 1]
             IN  IF ConstructorThrows(Normalize(url))
                 THEN connectCatch(st1, url)
                 ELSE newWebSocket(st1, Normalize(url), url)

\* connect without the check of an attempt in progress
connect_noInProgress(st, u) ==
    LET url == IF u = NoUrl THEN DefaultUrl ELSE u
    IN  IF st.connectionAttempts >= maxConnectionAttempts THEN st
        ELSE LET st1 == [st EXCEPT !.isConnecting = TRUE,
                                   !.connectionAttempts = @ + 1]
             IN  IF ConstructorThrows(Normalize(url))
                 THEN connectCatch(st1, url)
                 ELSE newWebSocket(st1, Normalize(url), url)

\* connect that counts a call it refuses because of an attempt in progress
connect_countRefused(st, u) ==
    LET url == IF u = NoUrl THEN DefaultUrl ELSE u
    IN  IF st.isConnecting THEN [st EXCEPT !.connectionAttempts = @ + 1]
        ELSE IF st.connectionAttempts >= maxConnectionAttempts THEN st
        ELSE LET st1 == [st EXCEPT !.isConnecting = TRUE,
                                   !.connectionAttempts = @ + 1]
             IN  IF ConstructorThrows(Normalize(url))
                 THEN connectCatch(st1, url)
                 ELSE newWebSocket(st1, Normalize(url), url)

connect(st, u) ==
    LET url == IF u = NoUrl THEN DefaultUrl ELSE u
    IN  IF st.isConnecting THEN st
        ELSE IF st.connectionAttempts >= maxConnectionAttempts THEN st
        ELSE LET st1 == [st EXCEPT !.isConnecting = TRUE,
                                   !.connectionAttempts = @ + 1]
             IN  IF ConstructorThrows(Normalize(url))
                 THEN connectCatch(st1, url)
                 ELSE newWebSocket(st1, Normalize(url), url)

\* onopen that keeps the attempt counter
onopen_keepAttempts(st, s) ==
    [st EXCEPT !.socks[s].rs = "open",
               !.isConnected = TRUE,
               !.isConnecting = FALSE]

onopen(st, s) ==
    [st EXCEPT !.socks[s].rs = "open",
               !.isConnected = TRUE,
               !.isConnecting = FALSE,
               !.connectionAttempts = 0]

\* onclose that never schedules a retry
onclose_giveUp(st, s, code) ==
    [st EXCEPT !.socks[s] = ClosedSock,
               !.isConnected = FALSE,
               !.isConnecting = FALSE]

\* onclose that schedules a retry after a normal closure too
onclose_anyCode(st, s, code) ==
    LET st1 == [st EXCEPT !.socks[s] = ClosedSock,
                          !.isConnected = FALSE,
                          !.isConnecting = FALSE]
    IN  IF st1.connectionAttempts < maxConnectionAttempts
        THEN [st1 EXCEPT !.timers = setTimeout(clearTimeout(st1),
                                               st.socks[s].url),
                         !.reconnectTimer = TRUE]
        ELSE st1

\* onclose that schedules the retry without cancelling the pending one
onclose_noClear(st, s, code) ==
    LET st1 == [st EXCEPT !.socks[s] = ClosedSock,
                          !.isConnected = FALSE,
                          !.isConnecting = FALSE]
    IN  IF code # NormalClosure
           /\ st1.connectionAttempts < maxConnectionAttempts
        THEN [st1 EXCEPT !.timers = setTimeout(st1.timers, st.socks[s].url),
                         !.reconnectTimer = TRUE]
        ELSE st1

onclose(st, s, code) ==
    LET st1 == [st EXCEPT !.socks[s] = ClosedSock,
                          !.isConnected = FALSE,
                          !.isConnecting = FALSE]
    IN  IF code # NormalClosure
           /\ st1.connectionAttempts < maxConnectionAttempts
        THEN [st1 EXCEPT !.timers = setTimeout(clearTimeout(st1),
                                               st.socks[s].url),
                         !.reconnectTimer = TRUE]
        ELSE st1

\* onerror that schedules a retry
onerror_retry(st, s) ==
    [st EXCEPT !.socks[s].rs = "failing",
               !.isConnected = FALSE,
               !.timers = setTimeout(clearTimeout(st), st.socks[s].url),
               !.reconnectTimer = TRUE]

onerror(st, s) ==
    [st EXCEPT !.socks[s].rs = "failing", !.isConnected = FALSE]

\* sendElementClick that looks at the transport only, not at isConnected
sendElementClick_noFlag(st, d) ==
    IF st.socket # Null /\ st.socks[st.socket].rs = "open"
    THEN [st EXCEPT !.sent = Append(@, d)]
    ELSE st

\* sendElementClick that hands the message to the transport twice
sendElementClick_twice(st, d) ==
    IF st.socket # Null /\ st.isConnected /\ st.socks[st.socket].rs = "open"
    THEN [st EXCEPT !.sent = Append(Append(@, d), d)]
    ELSE st

sendElementClick(st, d) ==
    IF st.socket # Null /\ st.isConnected /\ st.socks[st.socket].rs = "open"
    THEN [st EXCEPT !.sent = Append(@, d)]
    ELSE st

\* resetConnectionAttempts that forgets the handle without clearTimeout
resetConnectionAttempts_noClear(st) ==
    LET st1 == [st EXCEPT !.connectionAttempts = 0]
    IN  IF st1.reconnectTimer
        THEN [st1 EXCEPT !.reconnectTimer = FALSE]
        ELSE st1

resetConnectionAttempts(st) ==
    LET st1 == [st EXCEPT !.connectionAttempts = 0]
    IN  IF st1.reconnectTimer
        THEN [st1 EXCEPT !.timers = clearTimeout(st1),
                         !.reconnectTimer = FALSE]
        ELSE st1

\* disconnect that closes the transport it no longer references again,
\* as an abnormal closure
disconnect_closeAgain(st) ==
    LET st1 == [st EXCEPT !.socks =
                    [i \in SockIds |->
                        IF st.socks[i].rs \in {"connecting", "open"}
                        THEN close(st.socks[i], AbnormalClosure)
                        ELSE st.socks[i]],
                          !.socket = Null,
                          !.isConnected = FALSE]
    IN  IF st1.reconnectTimer
        THEN [st1 EXCEPT !.timers = clearTimeout(st1),
                         !.reconnectTimer = FALSE]
        ELSE st1

\* disconnect that also forgets the attempts made
disconnect_resetAttempts(st) ==
    LET st1 == IF st.socket # Null
               THEN [st EXCEPT !.socks[st.socket] = close(@, NormalClosure),
                               !.socket = Null,
                               !.isConnected = FALSE]
               ELSE st
    IN  IF st1.reconnectTimer
        THEN [st1 EXCEPT !.timers = clearTimeout(st1),
                         !.reconnectTimer = FALSE,
                         !.connectionAttempts = 0]
        ELSE [st1 EXCEPT !.connectionAttempts = 0]

\* disconnect that gives an exhausted manager a new start
disconnect_newStart(st) ==
    LET st1 == IF st.socket # Null
               THEN [st EXCEPT !.socks[st.socket] = close(@, NormalClosure),
                               !.socket = Null,
                               !.isConnected = FALSE]
               ELSE st
        st2 == IF st1.connectionAttempts >= maxConnectionAttempts
               THEN [st1 EXCEPT !.connectionAttempts = 0]
               ELSE st1
    IN  IF st2.reconnectTimer
        THEN [st2 EXCEPT !.timers = clearTimeout(st2),
                         !.reconnectTimer = FALSE]
        ELSE st2

disconnect(st) ==
    LET st1 == IF st.socket # Null
               THEN [st EXCEPT !.socks[st.socket] = close(@, NormalClosure),
                               !.socket = Null,
                               !.isConnected = FALSE]
               ELSE st
    IN  IF st1.reconnectTimer
        THEN [st1 EXCEPT !.timers = clearTimeout(st1),
                         !.reconnectTimer = FALSE]
        ELSE st1

(***************************************************************************)
(* The document.  Markup is a sequence of tokens (start tag, end tag,      *)
(* text); the document is the markup of its body, and an element is the    *)
(* position of its start tag.  Reading innerHTML / outerHTML serialises a  *)
(* subtree, assigning innerHTML parses a string into a subtree.            *)
(***************************************************************************)
O(tag, id) == [k |-> "open", tag |-> tag, id |-> id]
C(tag) == [k |-> "close", tag |-> tag, id |-> ""]
T(v) == [k |-> "text", tag |-> v, id |-> ""]

\* the page at load time: <div id="a"><i id="b">y</i></div><i id="c">z</i>
Page == <<O("div", "a"), O("i", "b"), T("y"), C("i"), C("div"),
          O("i", "c"), T("z"), C("i")>>

\* the end tags that close the open elements, innermost first
RECURSIVE CloseAll(_)
CloseAll(stack) ==
    IF stack = << >> THEN << >>
    ELSE <<C(Head(stack))>> \o CloseAll(Tail(stack))

\* the open elements left after an end tag for tag, innermost first
RECURSIVE PopTo(_, _)
PopTo(stack, tag) ==
    IF Head(stack) = tag THEN Tail(stack) ELSE PopTo(Tail(stack), tag)

\* the end tags emitted by an end tag for tag
RECURSIVE ClosedBy(_, _)
ClosedBy(stack, tag) ==
    IF Head(stack) = tag THEN <<C(tag)>>
    ELSE <<C(Head(stack))>> \o ClosedBy(Tail(stack), tag)

\* the HTML fragment parser followed by serialisation: an end tag closes
\* the elements opened inside its element, an end tag without a start tag is
\* ignored, and the elements left open at the end are closed
RECURSIVE ParseFrom(_, _)
ParseFrom(toks, stack) ==
    IF toks = << >> THEN CloseAll(stack)
    ELSE LET t == Head(toks)
         IN  CASE t.k = "open" ->
                    <<t>> \o ParseFrom(Tail(toks), <<t.tag>> \o stack)
               [] t.k = "text" -> <<t>> \o ParseFrom(Tail(toks), stack)
               [] OTHER ->
                    IF \E i \in DOMAIN stack : stack[i] = t.tag
                    THEN ClosedBy(stack, t.tag)
                             \o ParseFrom(Tail(toks), PopTo(stack, t.tag))
                    ELSE ParseFrom(Tail(toks), stack)

Parse(markup) == ParseFrom(markup, << >>)

\* start tags minus end tags in d[i..j]
RECURSIVE Depth(_, _, _)
Depth(d, i, j) ==
    IF j < i THEN 0
    ELSE Depth(d, i, j - 1)
             + (CASE d[j].k = "open" -> 1 [] d[j].k = "close" -> 0 - 1
                  [] OTHER -> 0)

\* the position of the end tag of the element that starts at i
EndOf(d, i) ==
    CHOOSE j \in i + 1..Len(d) :
        /\ Depth(d, i, j) = 0
        /\ \A n \in i + 1..j - 1 : Depth(d, i, n) > 0

innerHTML(d, i) == SubSeq(d, i + 1, EndOf(d, i) - 1)
outerHTML(d, i) == SubSeq(d, i, EndOf(d, i))

\* element.innerHTML = markup
setInnerHTML(d, i, markup) ==
    SubSeq(d, 1, i) \o Parse(markup) \o SubSeq(d, EndOf(d, i), Len(d))

\* element.parentNode: the enclosing element, or the document itself
DocumentNode == 0 - 1
parentNode(d, i) ==
    LET anc == {j \in 1..i - 1 : d[j].k = "open" /\ EndOf(d, j) > i}
    IN  IF anc = {} THEN DocumentNode
        ELSE CHOOSE j \in anc : \A n \in anc : n <= j

\* parent.removeChild(element)
removeChild(d, i) ==
    SubSeq(d, 1, i - 1) \o SubSeq(d, EndOf(d, i) + 1, Len(d))

(***************************************************************************)
(* Selectors are strings of characters; "#x" selects the element with id   *)
(* x, any other string of the model is not a selector (SyntaxError).       *)
(***************************************************************************)
NoSelector == << >>
SelA == <<"#", "a">>
SelB == <<"#", "b">>
SelC == <<"#", "c">>
SelNone == <<"#", "z">>
SelBad == <<"[">>
\* a type selector: every i element
SelI == <<"i">>

\* an id selector or a type selector
ValidSelector(sel) ==
    \/ Len(sel) = 2 /\ sel[1] = "#"
    \/ Len(sel) = 1 /\ sel[1] # "["

Matches(d, sel) ==
    {i \in DOMAIN d :
        /\ d[i].k = "open"
        /\ IF Len(sel) = 2 THEN d[i].id = sel[2] ELSE d[i].tag = sel[1]}

\* document.querySelector(sel) on a valid selector: the first match in
\* document order, or Null
querySelector(d, sel) ==
    IF Matches(d, sel) = {} THEN Null
    ELSE CHOOSE i \in Matches(d, sel) : \A j \in Matches(d, sel) : i <= j

(***************************************************************************)
(* Instructions.  A missing (undefined, null or empty) id, action or       *)
(* selector is the empty string; NoContent is an undefined or null         *)
(* content, EmptyContent the empty string.                                 *)
(***************************************************************************)
NoContent == <<[k |-> "undefined", tag |-> "", id |-> ""]>>
EmptyContent == << >>
\* <b>x</b>
GoodContent == <<O("b", ""), T("x"), C("b")>>
\* <b>x
OpenContent == <<O("b", ""), T("x")>>

\* the engine as one record: the document, the records, the dubbing flag,
\* and whether an exception is propagating
E == [dom |-> dom, injectedContents |-> injectedContents,
      isDynaDubbing |-> isDynaDubbing, exc |-> FALSE]

\* throw: the state as it is, with the exception propagating
Throw(e) == [e EXCEPT !.exc = TRUE]
\* a catch that throws the exception again
Catch_rethrow(e) == e

\* catch (error) { console.error(...) }
Catch(e) == [e EXCEPT !.exc = FALSE]

\* a set that forgets the records of the other instructions
MapSet_fresh(m, data) == <<data>>

\* this.injectedContents.set(id, data): a Map keeps the position of a key
\* that is already present
MapSet(m, data) ==
    IF \E i \in DOMAIN m : m[i].id = data.id
    THEN [i \in DOMAIN m |-> IF m[i].id = data.id THEN data ELSE m[i]]
    ELSE Append(m, data)

\* the try block of appendHTML reading originalContent after the append
appendHTMLTry_captureAfter(e, ins) ==
    IF ~ ValidSelector(ins.selector) THEN Throw(e)
    ELSE LET element == querySelector(e.dom, ins.selector)
         IN  IF element = Null THEN e
             ELSE LET d == setInnerHTML(e.dom, element,
                               innerHTML(e.dom, element) \o ins.content)
                  IN  [e EXCEPT
                        !.dom = d,
                        !.injectedContents = MapSet(@,
                            [id |-> ins.id, action |-> ins.action,
                             selector |-> ins.selector,
                             content |-> ins.content,
                             originalContent |-> innerHTML(d, element)])]

\* the try block of appendHTML storing its record when nothing matches
appendHTMLTry_recordAnyway(e, ins) ==
    IF ~ ValidSelector(ins.selector) THEN Throw(e)
    ELSE LET element == querySelector(e.dom, ins.selector)
             data == [id |-> ins.id, action |-> ins.action,
                      selector |-> ins.selector, content |-> ins.content,
                      originalContent |->
                          IF element = Null THEN << >>
                          ELSE innerHTML(e.dom, element)]
         IN  IF element = Null
             THEN [e EXCEPT !.injectedContents = MapSet(@, data)]
             ELSE [e EXCEPT
                    !.dom = setInnerHTML(e.dom, element,
                                data.originalContent \o ins.content),
                    !.injectedContents = MapSet(@, data)]

\* the body of the try block of appendHTML
appendHTMLTry(e, ins) ==
    IF ~ ValidSelector(ins.selector) THEN Throw(e)
    ELSE LET element == querySelector(e.dom, ins.selector)
         IN  IF element = Null THEN e
             ELSE LET originalContent == innerHTML(e.dom, element)
                  IN  [e EXCEPT
                        !.dom = setInnerHTML(e.dom, element,
                                    originalContent \o ins.content),
                        !.injectedContents = MapSet(@,
                            [id |-> ins.id, action |-> ins.action,
                             selector |-> ins.selector,
                             content |-> ins.content,
                             originalContent |-> originalContent])]

appendHTML(e, ins) ==
    IF ins.selector = NoSelector THEN e
    ELSE IF ins.content = NoContent THEN e
    ELSE Catch(appendHTMLTry(e, ins))

\* the try block of replaceHTML keeping the markup that was there
replaceHTMLTry_append(e, ins) ==
    IF ~ ValidSelector(ins.selector) THEN Throw(e)
    ELSE LET element == querySelector(e.dom, ins.selector)
         IN  IF element = Null THEN e
             ELSE LET originalContent == innerHTML(e.dom, element)
                  IN  [e EXCEPT
                        !.dom = setInnerHTML(e.dom, element,
                                    originalContent \o ins.content),
                        !.injectedContents = MapSet(@,
                            [id |-> ins.id, action |-> ins.action,
                             selector |-> ins.selector,
                             content |-> ins.content,
                             originalContent |-> originalContent])]

\* the body of the try block of replaceHTML
replaceHTMLTry(e, ins) ==
    IF ~ ValidSelector(ins.selector) THEN Throw(e)
    ELSE LET element == querySelector(e.dom, ins.selector)
         IN  IF element = Null THEN e
             ELSE LET originalContent == innerHTML(e.dom, element)
                  IN  [e EXCEPT
                        !.dom = setInnerHTML(e.dom, element, ins.content),
                        !.injectedContents = MapSet(@,
                            [id |-> ins.id, action |-> ins.action,
                             selector |-> ins.selector,
                             content |-> ins.content,
                             originalContent |-> originalContent])]

replaceHTML(e, ins) ==
    IF ins.selector = NoSelector \/ ins.content \in {NoContent, EmptyContent}
    THEN e
    ELSE Catch(replaceHTMLTry(e, ins))

\* the body of the try block of removeElement: the record is stored before
\* the parent is looked at
removeElementTry(e, ins) ==
    IF ~ ValidSelector(ins.selector) THEN Throw(e)
    ELSE LET element == querySelector(e.dom, ins.selector)
         IN  IF element = Null THEN e
             ELSE LET parent == parentNode(e.dom, element)
                      e1 == [e EXCEPT !.injectedContents = MapSet(@,
                                [id |-> ins.id, action |-> ins.action,
                                 selector |-> ins.selector,
                                 content |-> NoContent,
                                 originalContent |->
                                     outerHTML(e.dom, element)])]
                  IN  IF parent # Null
                      THEN [e1 EXCEPT !.dom = removeChild(e.dom, element)]
                      ELSE e1

removeElement(e, ins) ==
    IF ins.selector = NoSelector THEN e
    ELSE Catch(removeElementTry(e, ins))

shouldApplyInstruction(e, ins) == TRUE

\* the switch of handleInstruction with a default that appends
dispatch_defaultAppend(e, ins) ==
    CASE ins.action = "replaceHTML" -> replaceHTML(e, ins)
      [] ins.action = "removeElement" -> removeElement(e, ins)
      [] OTHER -> appendHTML(e, ins)

\* the switch of handleInstruction
dispatch(e, ins) ==
    CASE ins.action = "appendHTML" -> appendHTML(e, ins)
      [] ins.action = "replaceHTML" -> replaceHTML(e, ins)
      [] ins.action = "removeElement" -> removeElement(e, ins)
      [] OTHER -> e

\* handleInstruction without the check of id, action and selector
handleInstruction_noValidation(e, ins) ==
    IF ~ shouldApplyInstruction(e, ins) THEN e
    ELSE Catch(dispatch(e, ins))

handleInstruction(e, ins) ==
    IF ins.id = "" \/ ins.action = "" \/ ins.selector = NoSelector THEN e
    ELSE IF ~ shouldApplyInstruction(e, ins) THEN e
    ELSE Catch(dispatch(e, ins))

\* this.injectedContents.values()
getInjections(e) == e.injectedContents

(***************************************************************************)
(* Inbound messages.  A message is its text as JSON.parse sees it          *)
(* ("garbage" is not JSON, "null" is the JSON value null, "object" an      *)
(* object), the type of the object, and its data: no instruction, or one.  *)
(***************************************************************************)
Message(text, type, data) == [text |-> text, type |-> type, data |-> data]
NoMessage == Message("object", "", << >>)

\* the service as one record: the connection manager, the engine and the
\* registered callbacks, with the calls made to the callbacks so far
W == [conn |-> S, eng |-> E,
      onElementClickCallbacks |-> onElementClickCallbacks,
      onInstructionCallbacks |-> onInstructionCallbacks,
      calls |-> << >>]

\* the callbacks 1..n, in registration order
UpTo(n) == [i \in 1..n |-> i]

\* forEach without a try around the callback: the first callback that
\* throws ends the loop
FirstThrow(cbs) ==
    IF \E i \in DOMAIN cbs : cbs[i]
    THEN CHOOSE i \in DOMAIN cbs : cbs[i] /\ \A j \in 1..i - 1 : ~ cbs[j]
    ELSE Len(cbs)

\* onmessage that notifies the callbacks of an instruction and leaves a
\* replaceHTML to be applied later
onmessage_defer(w, m) ==
    IF m.text # "object" THEN w
    ELSE CASE m.type = "element-clicked" ->
                [w EXCEPT !.calls =
                     UpTo(FirstThrow(w.onElementClickCallbacks))]
           [] m.type = "inject-instruction" ->
                IF m.data = << >> THEN w
                ELSE LET e == IF m.data[1].action = "replaceHTML"
                              THEN w.eng
                              ELSE handleInstruction(w.eng, m.data[1])
                     IN  IF e.exc THEN [w EXCEPT !.eng = Catch(e)]
                         ELSE [w EXCEPT
                                !.eng = e,
                                !.calls =
                                    UpTo(Len(w.onInstructionCallbacks))]
           [] OTHER -> w

\* onmessage giving up the connection on a message that is not an object
onmessage_teardown(w, m) ==
    IF m.text # "object" THEN [w EXCEPT !.conn.isConnected = FALSE]
    ELSE CASE m.type = "element-clicked" ->
                [w EXCEPT !.calls =
                     UpTo(FirstThrow(w.onElementClickCallbacks))]
           [] m.type = "inject-instruction" ->
                IF m.data = << >> THEN w
                ELSE LET e == handleInstruction(w.eng, m.data[1])
                     IN  IF e.exc THEN [w EXCEPT !.eng = Catch(e)]
                         ELSE [w EXCEPT
                                !.eng = e,
                                !.calls =
                                    UpTo(Len(w.onInstructionCallbacks))]
           [] OTHER -> w

\* the try block of onmessage with the instruction callbacks called
\* without a try of their own
onmessageTry_bare(w, m) ==
    IF m.text # "object" THEN [w EXCEPT !.eng = Throw(@)]
    ELSE CASE m.type = "element-clicked" ->
                [w EXCEPT
                   !.calls = UpTo(FirstThrow(w.onElementClickCallbacks)),
                   !.eng.exc = \E i \in DOMAIN w.onElementClickCallbacks :
                                  w.onElementClickCallbacks[i]]
           [] m.type = "inject-instruction" ->
                IF m.data = << >> THEN w
                ELSE LET e == handleInstruction(w.eng, m.data[1])
                     IN  IF e.exc THEN [w EXCEPT !.eng = e]
                         ELSE [w EXCEPT
                                !.eng = e,
                                !.calls =
                                    UpTo(FirstThrow(w.onInstructionCallbacks)),
                                !.eng.exc =
                                    \E i \in DOMAIN w.onInstructionCallbacks :
                                        w.onInstructionCallbacks[i]]
           [] OTHER -> w

\* the try block of onmessage: JSON.parse throws on a text that is not
\* JSON and message.type throws on null; a click callback that throws ends
\* the forEach; an instruction callback is called in a try of its own
onmessageTry(w, m) ==
    IF m.text # "object" THEN [w EXCEPT !.eng = Throw(@)]
    ELSE CASE m.type = "element-clicked" ->
                [w EXCEPT
                   !.calls = UpTo(FirstThrow(w.onElementClickCallbacks)),
                   !.eng.exc = \E i \in DOMAIN w.onElementClickCallbacks :
                                  w.onElementClickCallbacks[i]]
           [] m.type = "inject-instruction" ->
                IF m.data = << >> THEN w
                ELSE LET e == handleInstruction(w.eng, m.data[1])
                     IN  IF e.exc THEN [w EXCEPT !.eng = e]
                         ELSE [w EXCEPT
                                !.eng = e,
                                !.calls =
                                    UpTo(Len(w.onInstructionCallbacks))]
           [] OTHER -> w

\* socket.onmessage = function(event) {...}: everything is inside one try
onmessage(w, m) ==
    LET r == onmessageTry(w, m)
    IN  [r EXCEPT !.eng = Catch(@)]


(***************************************************************************)
(* The click tracker.  The elements that can be clicked are named by their *)
(* id; body stands for the body element.                                   *)
(***************************************************************************)
Elements == {"a", "b"}
Targets == Elements \cup {"body"}
tagName(el) == CASE el = "a" -> "div" [] el = "b" -> "i" [] OTHER -> "body"

\* element.style as the page gives it, and as highlightElement sets it
OriginalStyle == [outline |-> "", outlineOffset |-> "", transition |-> ""]
HighlightStyle == [outline |-> "2px solid rgba(0, 255, 98, 0.7)",
                   outlineOffset |-> "2px",
                   transition |-> "outline 0.2s ease-in-out"]

\* the clock when the page is loaded: later than a throttle delay after 0
Epoch == throttleDelay
\* the lapses of time between two steps
Durations == {throttleDelay - 1, throttleDelay, highlightDelay - throttleDelay}

\* the tracker as one record, with the service it reports to and the
\* elements handled by the current event
TR == [enabled |-> enabled, throttledClickHandler |-> throttledClickHandler,
       listeners |-> listeners, style |-> style,
       highlightTimers |-> highlightTimers, conn |-> S, handled |-> << >>]

\* a sequence without its element i
Without(seq, i) == SubSeq(seq, 1, i - 1) \o SubSeq(seq, i + 1, Len(seq))

\* enable without the test of this.enabled
enable_again(tr) ==
    [tr EXCEPT !.enabled = TRUE,
               !.listeners = Append(@, 0),
               !.throttledClickHandler = Len(tr.listeners) + 1]

enable(tr) ==
    IF tr.enabled THEN tr
    ELSE [tr EXCEPT !.enabled = TRUE,
                    !.listeners = Append(@, 0),
                    !.throttledClickHandler = Len(tr.listeners) + 1]

disable(tr) ==
    IF ~ tr.enabled THEN tr
    ELSE LET tr1 == [tr EXCEPT !.enabled = FALSE]
         IN  IF tr1.throttledClickHandler # Null
             THEN [tr1 EXCEPT
                    !.listeners = Without(@, tr1.throttledClickHandler),
                    !.throttledClickHandler = Null]
             ELSE tr1

highlightElement(tr, el, t) ==
    [tr EXCEPT !.style[el] = HighlightStyle,
               !.highlightTimers =
                   Append(@, [el |-> el, original |-> tr.style[el],
                              due |-> t + highlightDelay])]

\* the descriptor of a click is named by its timestamp
sendElementData(tr, el, t) ==
    [tr EXCEPT !.conn = sendElementClick(@, t),
               !.handled = Append(@, el)]

handleElementClick(tr, el, t) ==
    IF tagName(el) \in {"body", "html"} THEN tr
    ELSE sendElementData(highlightElement(tr, el, t), el, t)

\* a throttle that lets every call through
throttle_through(tr, i, el, t) ==
    handleElementClick([tr EXCEPT !.listeners[i] = t], el, t)

\* a throttle that looks at the target first: a click on body or html
\* does not count as a call
throttle_targetFirst(tr, i, el, t) ==
    IF tagName(el) \in {"body", "html"} THEN tr
    ELSE IF t - tr.listeners[i] < throttleDelay THEN tr
    ELSE handleElementClick([tr EXCEPT !.listeners[i] = t], el, t)

\* the function returned by throttle, for the listener at position i
throttle(tr, i, el, t) ==
    IF t - tr.listeners[i] < throttleDelay THEN tr
    ELSE handleElementClick([tr EXCEPT !.listeners[i] = t], el, t)

\* a click event on el at time t: the listeners from i on are called in
\* the order they were added
RECURSIVE dispatchClick(_, _, _, _)
dispatchClick(tr, i, el, t) ==
    IF i > Len(tr.listeners) THEN tr
    ELSE dispatchClick(throttle(tr, i, el, t), i + 1, el, t)

\* the callback of the timer of highlightElement
highlightTimeout(tr, i) ==
    [tr EXCEPT !.style[tr.highlightTimers[i].el] =
                   tr.highlightTimers[i].original,
               !.highlightTimers = Without(@, i)]

(***************************************************************************)
(* Initial state: new WebSocketService(), new ElementClickingTracker().    *)
(***************************************************************************)
Init ==
    /\ socket = Null
    /\ isConnected = FALSE
    /\ connectionAttempts = 0
    /\ isConnecting = FALSE
    /\ reconnectTimer = FALSE
    /\ timers = << >>
    /\ socks = [i \in SockIds |-> ClosedSock]
    /\ sent = << >>
    /\ nextClick = 0
    /\ last = [op |-> "init", s |-> Null, code |-> 0, url |-> NoUrl,
               pre |-> P, same |-> TRUE, created |-> FALSE]
    /\ opens = 0
    /\ disconnected = FALSE
    /\ exhausted = FALSE
    /\ dropped = {}
    /\ dom = Page
    /\ injectedContents = << >>
    /\ isDynaDubbing = FALSE
    /\ onElementClickCallbacks = << >>
    /\ onInstructionCallbacks = << >>
    /\ lastMsg = [m |-> NoMessage, preDom |-> Page, preRecs |-> << >>,
                  calls |-> << >>, exc |-> FALSE]
    /\ arrived = << >>
    /\ received = 0
    /\ enabled = FALSE
    /\ throttledClickHandler = Null
    /\ listeners = << >>
    /\ style = [el \in Elements |-> OriginalStyle]
    /\ highlightTimers = << >>
    /\ now = Epoch
    /\ ticks = 0
    /\ prevProcessed = 0
    /\ reenabled = FALSE
    /\ prevBody = 0
    /\ prevBodyPassed = FALSE
    /\ through = 0
    /\ lastTrack = [op |-> "init", el |-> "body", handled |-> << >>,
                    gap |-> 0, first |-> TRUE, fresh |-> FALSE,
                    afterBody |-> FALSE, sinceBody |-> 0,
                    passed |-> FALSE, quiet |-> TRUE,
                    same |-> TRUE]

(***************************************************************************)
(* Steps.  An error event and the close event that follows it are          *)
(* delivered in one task of the event loop: while a transport is           *)
(* "failing" only its close event can be taken.                            *)
(***************************************************************************)
Idle == \A i \in SockIds : socks[i].rs # "failing"

\* the live transports
Live(ss) == {i \in SockIds : ss[i].rs # "closed"}

\* the step from st to st2 created a transport
Created(st, st2) == Live(st2.socks) \ Live(st.socks) # {}

\* the record of a step: the operation, its transport, close code and url,
\* the state before it, whether it left the program state as it was, and
\* whether it created a transport
StepUrl(op, s, code, u) ==
    last' = [op |-> op, s |-> s, code |-> code, url |-> u, pre |-> P,
             same |-> (progVars' = progVars),
             created |-> (Live(socks') \ Live(socks) # {})]

Step(op, s, code) == StepUrl(op, s, code, NoUrl)

\* the caller calls connect(u)
Connect(u) ==
    /\ Idle
    /\ connect(S, u).socket # Overflow
    /\ Becomes(connect(S, u))
    /\ StepUrl("connect", Null, 0, u)
    /\ opens' = IF Created(S, connect(S, u)) THEN opens + 1 ELSE opens
    /\ disconnected' = FALSE
    /\ exhausted' = FALSE
    /\ UNCHANGED <<nextClick, dropped>>
    /\ UNCHANGED engineVars
    /\ UNCHANGED trackerVars

\* a pending retry timer fires and calls self.connect(url)
ReconnectTimerFire(i) ==
    /\ Idle
    /\ i \in DOMAIN timers
    /\ LET st == [S EXCEPT !.timers =
                      SubSeq(timers, 1, i - 1)
                          \o SubSeq(timers, i + 1, Len(timers))]
           u == timers[i].url
       IN  /\ connect(st, u).socket # Overflow
           /\ Becomes(connect(st, u))
           /\ opens' = IF Created(st, connect(st, u)) THEN opens + 1
                       ELSE opens
    /\ StepUrl("timer", Null, 0, timers[i].url)
    /\ UNCHANGED <<nextClick, disconnected, exhausted, dropped>>
    /\ UNCHANGED engineVars
    /\ UNCHANGED trackerVars

\* the caller calls disconnect()
Disconnect ==
    /\ Idle
    /\ Becomes(disconnect(S))
    /\ Step("disconnect", Null, 0)
    /\ disconnected' = TRUE
    /\ UNCHANGED <<nextClick, opens, exhausted, dropped>>
    /\ UNCHANGED engineVars
    /\ UNCHANGED trackerVars

\* the caller calls resetConnectionAttempts()
ResetConnectionAttempts ==
    /\ Idle
    /\ Becomes(resetConnectionAttempts(S))
    /\ Step("reset", Null, 0)
    /\ opens' = 0
    /\ exhausted' = FALSE
    /\ UNCHANGED <<nextClick, disconnected, dropped>>
    /\ UNCHANGED engineVars
    /\ UNCHANGED trackerVars

\* the caller (or the click tracker) calls sendElementClick(descriptor)
SendElementClick ==
    /\ Idle
    /\ nextClick < MaxClicks
    /\ nextClick' = nextClick + 1
    /\ Becomes(sendElementClick(S, nextClick + 1))
    /\ Step("send", Null, 0)
    /\ dropped' = IF isConnected THEN dropped
                  ELSE dropped \cup {nextClick + 1}
    /\ UNCHANGED <<opens, disconnected, exhausted>>
    /\ UNCHANGED engineVars
    /\ UNCHANGED trackerVars

\* the open event of transport s
OnOpen(s) ==
    /\ Idle
    /\ socks[s].rs = "connecting"
    /\ Becomes(onopen(S, s))
    /\ Step("open", s, 0)
    /\ opens' = 0
    /\ UNCHANGED <<nextClick, disconnected, exhausted, dropped>>
    /\ UNCHANGED engineVars
    /\ UNCHANGED trackerVars

\* the error event of transport s
OnError(s) ==
    /\ Idle
    /\ socks[s].rs \in {"connecting", "open", "closing", "aborting"}
    /\ Becomes(onerror(S, s))
    /\ Step("error", s, 0)
    /\ UNCHANGED <<nextClick, opens, disconnected, exhausted, dropped>>
    /\ UNCHANGED engineVars
    /\ UNCHANGED trackerVars

\* the close event of transport s with close code
OnClose(s, code) ==
    /\ \/ Idle /\ socks[s].rs \in {"open", "closing"}
       \/ socks[s].rs = "failing" /\ code # NormalClosure
    /\ Becomes(onclose(S, s, code))
    /\ Step("close", s, code)
    /\ exhausted' = IF /\ code # NormalClosure
                       /\ connectionAttempts >= maxConnectionAttempts
                       /\ s = socket
                    THEN TRUE ELSE exhausted
    /\ UNCHANGED <<nextClick, opens, disconnected, dropped>>
    /\ UNCHANGED engineVars
    /\ UNCHANGED trackerVars

\* the state of the service becomes w
BecomesW(w) ==
    /\ Becomes(w.conn)
    /\ dom' = w.eng.dom
    /\ injectedContents' = w.eng.injectedContents
    /\ isDynaDubbing' = w.eng.isDynaDubbing

\* the message event of transport s
OnMessage(s, m) ==
    /\ UNCHANGED trackerVars
    /\ Idle
    /\ socks[s].rs \in {"open", "closing"}
    /\ received < MaxMessages
    /\ received' = received + 1
    /\ LET w == onmessage(W, m)
       IN  /\ BecomesW(w)
           /\ lastMsg' = [m |-> m, preDom |-> dom,
                          preRecs |-> injectedContents,
                          calls |-> w.calls, exc |-> w.eng.exc]
    /\ arrived' = IF m.text = "object" /\ m.type = "inject-instruction"
                  THEN arrived \o m.data ELSE arrived
    /\ Step("message", s, 0)
    /\ UNCHANGED <<nextClick, opens, disconnected, exhausted, dropped,
                   onElementClickCallbacks, onInstructionCallbacks>>

\* the caller calls ElementTrackerAPI.handleInstruction(ins)
HandleInstruction(ins) ==
    /\ UNCHANGED trackerVars
    /\ Idle
    /\ received < MaxInstructions
    /\ received' = received + 1
    /\ LET e == handleInstruction(E, ins)
       IN  /\ BecomesW([W EXCEPT !.eng = e])
           /\ lastMsg' = [m |-> Message("object", "call", <<ins>>),
                          preDom |-> dom, preRecs |-> injectedContents,
                          calls |-> << >>, exc |-> e.exc]
    /\ Step("call", Null, 0)
    /\ UNCHANGED <<nextClick, opens, disconnected, exhausted, dropped,
                   onElementClickCallbacks, onInstructionCallbacks, arrived>>

\* the caller calls setDynaDubbing(b), or the page posts SET_DEBUGGING
SetDynaDubbing(b) ==
    /\ UNCHANGED trackerVars
    /\ Idle
    /\ isDynaDubbing' = b
    /\ UNCHANGED <<progVars, nextClick, opens, disconnected, exhausted,
                   dropped, dom, injectedContents, onElementClickCallbacks,
                   onInstructionCallbacks, lastMsg, arrived, received>>
    /\ Step("dubbing", Null, 0)

\* the caller calls onElementClick(callback); the callback throws or not
OnElementClick(throws) ==
    /\ UNCHANGED trackerVars
    /\ Idle
    /\ Len(onElementClickCallbacks) < MaxCallbacks
    /\ onElementClickCallbacks' = Append(onElementClickCallbacks, throws)
    /\ UNCHANGED <<progVars, nextClick, opens, disconnected, exhausted,
                   dropped, dom, injectedContents, isDynaDubbing,
                   onInstructionCallbacks, lastMsg, arrived, received>>
    /\ Step("onElementClick", Null, 0)

\* the caller calls onInstruction(callback); the callback throws or not
OnInstruction(throws) ==
    /\ UNCHANGED trackerVars
    /\ Idle
    /\ Len(onInstructionCallbacks) < MaxCallbacks
    /\ onInstructionCallbacks' = Append(onInstructionCallbacks, throws)
    /\ UNCHANGED <<progVars, nextClick, opens, disconnected, exhausted,
                   dropped, dom, injectedContents, isDynaDubbing,
                   onElementClickCallbacks, lastMsg, arrived, received>>
    /\ Step("onInstruction", Null, 0)

\* the state of the tracker, without the clock and the history
trackerState == <<enabled, throttledClickHandler, listeners, style,
                  highlightTimers>>

\* the state of the tracker and of the service it reports to becomes tr
BecomesTR(tr) ==
    /\ Becomes(tr.conn)
    /\ enabled' = tr.enabled
    /\ throttledClickHandler' = tr.throttledClickHandler
    /\ listeners' = tr.listeners
    /\ style' = tr.style
    /\ highlightTimers' = tr.highlightTimers

\* the record of a step of the tracker
Track(op, el, handled) ==
    lastTrack' = [op |-> op, el |-> el, handled |-> handled,
                  gap |-> now - prevProcessed,
                  first |-> (prevProcessed = 0),
                  fresh |-> reenabled,
                  afterBody |-> (prevBody # 0),
                  sinceBody |-> now - prevBody,
                  passed |-> prevBodyPassed,
                  quiet |-> (/\ style' = style
                             /\ highlightTimers' = highlightTimers
                             /\ sent' = sent),
                  same |-> (trackerState' = trackerState)]

\* the caller calls enableElementTracking()
EnableElementTracking ==
    /\ Idle
    /\ BecomesTR(enable(TR))
    /\ reenabled' = (reenabled \/ enable(TR).listeners # listeners)
    /\ prevBody' = IF enable(TR).listeners # listeners THEN 0 ELSE prevBody
    /\ prevBodyPassed' = (prevBodyPassed
                             /\ enable(TR).listeners = listeners)
    /\ through' = IF enable(TR).listeners # listeners THEN 0 ELSE through
    /\ Track("enable", "body", << >>)
    /\ Step("enable", Null, 0)
    /\ UNCHANGED <<now, ticks, prevProcessed>>
    /\ UNCHANGED <<nextClick, opens, disconnected, exhausted, dropped>>
    /\ UNCHANGED engineVars

\* the caller calls disableElementTracking()
DisableElementTracking ==
    /\ Idle
    /\ BecomesTR(disable(TR))
    /\ Track("disable", "body", << >>)
    /\ Step("disable", Null, 0)
    /\ UNCHANGED <<now, ticks, prevProcessed, reenabled, prevBody,
                   prevBodyPassed, through>>
    /\ UNCHANGED <<nextClick, opens, disconnected, exhausted, dropped>>
    /\ UNCHANGED engineVars

\* by the history of the clicks a click now is due: tracking is enabled
\* and the last click that was due, on an element or on body, is a
\* throttle delay or more ago
Due == enabled /\ now - through >= throttleDelay

\* the user clicks on el: the click event of the document
Click(el) ==
    /\ Idle
    /\ Len(highlightTimers) < MaxHighlights
    /\ LET tr == dispatchClick(TR, 1, el, now)
       IN  /\ BecomesTR(tr)
           /\ Track("click", el, tr.handled)
           /\ prevProcessed' = IF tr.handled # << >> THEN now
                               ELSE prevProcessed
           /\ reenabled' = IF tr.handled # << >> THEN FALSE ELSE reenabled
           /\ prevBody' = IF el = "body" THEN now ELSE prevBody
           /\ prevBodyPassed' = IF el = "body" THEN Due ELSE prevBodyPassed
           /\ through' = IF Due THEN now ELSE through
    /\ Step("click", Null, 0)
    /\ UNCHANGED <<now, ticks>>
    /\ UNCHANGED <<nextClick, opens, disconnected, exhausted, dropped>>
    /\ UNCHANGED engineVars

\* the timer that was set first by highlightElement fires
HighlightTimerFire ==
    /\ Idle
    /\ highlightTimers # << >>
    /\ highlightTimers[1].due <= now
    /\ BecomesTR(highlightTimeout(TR, 1))
    /\ Track("timeout", highlightTimers[1].el, << >>)
    /\ Step("timeout", Null, 0)
    /\ UNCHANGED <<now, ticks, prevProcessed, reenabled, prevBody,
                   prevBodyPassed, through>>
    /\ UNCHANGED <<nextClick, opens, disconnected, exhausted, dropped>>
    /\ UNCHANGED engineVars

\* time passes; a timer that is due fires before more time passes
Tick(d) ==
    /\ Idle
    /\ ticks < MaxTicks
    /\ \A i \in DOMAIN highlightTimers : highlightTimers[i].due > now
    /\ now' = now + d
    /\ ticks' = ticks + 1
    /\ UNCHANGED <<enabled, throttledClickHandler, listeners, style,
                   highlightTimers, prevProcessed, reenabled, prevBody,
                   prevBodyPassed, through>>
    /\ UNCHANGED progVars
    /\ Track("tick", "body", << >>)
    /\ Step("tick", Null, 0)
    /\ UNCHANGED <<nextClick, opens, disconnected, exhausted, dropped>>
    /\ UNCHANGED engineVars

\* the events of the host: timers and transports
Environment ==
    \/ \E i \in DOMAIN timers : ReconnectTimerFire(i)
    \/ \E s \in SockIds : OnOpen(s)
    \/ \E s \in SockIds : OnError(s)
    \/ \E s \in SockIds, code \in CloseCodes : OnClose(s, code)

\* the connection manager: the caller connects to any url
Next ==
    \/ \E u \in Urls : Connect(u)
    \/ Disconnect
    \/ ResetConnectionAttempts
    \/ Environment

Spec == Init /\ [][Next]_vars

\* the connection manager with clicks reported: the caller connects to the
\* default endpoint
NextSend ==
    \/ Connect(NoUrl)
    \/ Disconnect
    \/ ResetConnectionAttempts
    \/ SendElementClick
    \/ Environment

SpecSend == Init /\ [][NextSend]_vars

(***************************************************************************)
(* The click tracker with the clock, on a service that is not connected.   *)
(***************************************************************************)
NextTracker ==
    \/ EnableElementTracking
    \/ DisableElementTracking
    \/ \E el \in Targets : Click(el)
    \/ HighlightTimerFire
    \/ \E d \in Durations : Tick(d)

SpecTracker == Init /\ [][NextTracker]_vars

(***************************************************************************)
(* The connection manager with urls of every scheme.                       *)
(***************************************************************************)
AllUrls == {NoUrl, HttpsUrl, WsUrl, WssUrl}

NextUrls ==
    \/ \E u \in AllUrls : Connect(u)
    \/ \E i \in DOMAIN timers : ReconnectTimerFire(i)
    \/ \E s \in SockIds : OnOpen(s)
    \/ \E s \in SockIds, code \in CloseCodes : OnClose(s, code)

SpecUrls == Init /\ [][NextUrls]_vars

(***************************************************************************)
(* The instruction engine called directly, with every shape of             *)
(* instruction.                                                            *)
(***************************************************************************)
Ids == {"", "1"}
Actions == {"", "appendHTML", "replaceHTML", "removeElement", "frobnicate"}
Selectors == {NoSelector, SelA, SelB, SelI, SelNone, SelBad}
Contents == {NoContent, EmptyContent, GoodContent, OpenContent}
Instruction(id, action, selector, content, publish) ==
    [id |-> id, action |-> action, selector |-> selector,
     content |-> content, publish |-> publish]
Instructions ==
    {Instruction(id, a, sel, c, p) :
        id \in Ids, a \in Actions, sel \in Selectors, c \in Contents,
        p \in BOOLEAN}

NextEngine ==
    \/ \E ins \in Instructions : HandleInstruction(ins)
    \/ \E b \in BOOLEAN : SetDynaDubbing(b)

SpecEngine == Init /\ [][NextEngine]_vars

(***************************************************************************)
(* The service on the default endpoint with inbound messages and           *)
(* registered callbacks.                                                   *)
(***************************************************************************)
MessageInstructions ==
    {Instruction("1", "appendHTML", SelA, GoodContent, TRUE),
     Instruction("2", "replaceHTML", SelA, OpenContent, TRUE),
     Instruction("2", "replaceHTML", SelB, GoodContent, TRUE),
     Instruction("1", "removeElement", SelB, NoContent, FALSE),
     Instruction("2", "appendHTML", SelBad, GoodContent, TRUE)}
InjectMessages ==
    {Message("object", "inject-instruction", <<ins>>) :
        ins \in MessageInstructions}

NextMessage ==
    \/ Connect(NoUrl)
    \/ Disconnect
    \/ \E s \in SockIds : OnOpen(s)
    \/ \E s \in SockIds, m \in InjectMessages : OnMessage(s, m)
    \/ \E ins \in MessageInstructions : HandleInstruction(ins)

SpecMessage == Init /\ [][NextMessage]_vars

(***************************************************************************)
(* The service with its records: instructions that are applied, that       *)
(* overwrite a record and that fail, between the calls of the caller.      *)
(***************************************************************************)
RecordInstructions ==
    {Instruction("1", "appendHTML", SelA, GoodContent, TRUE),
     Instruction("1", "replaceHTML", SelB, GoodContent, TRUE),
     Instruction("2", "removeElement", SelB, GoodContent, TRUE),
     Instruction("2", "appendHTML", SelNone, GoodContent, TRUE),
     Instruction("1", "replaceHTML", SelBad, GoodContent, TRUE)}
RecordMessages ==
    {Message("object", "inject-instruction", <<ins>>) :
        ins \in RecordInstructions}

NextRecords ==
    \/ Connect(NoUrl)
    \/ Disconnect
    \/ ResetConnectionAttempts
    \/ \E s \in SockIds : OnOpen(s)
    \/ \E s \in SockIds, m \in RecordMessages : OnMessage(s, m)
    \/ \E ins \in RecordInstructions : HandleInstruction(ins)

SpecRecords == Init /\ [][NextRecords]_vars

(***************************************************************************)
(* The service on the default endpoint with instruction callbacks, its     *)
(* document changed by inbound instructions only.                          *)
(***************************************************************************)
NextOrder ==
    \/ Connect(NoUrl)
    \/ \E s \in SockIds : OnOpen(s)
    \/ \E s \in SockIds, m \in InjectMessages : OnMessage(s, m)
    \/ OnInstruction(FALSE)

SpecOrder == Init /\ [][NextOrder]_vars

(***************************************************************************)
(* The service on the default endpoint with registered callbacks and       *)
(* every kind of inbound message.                                          *)
(***************************************************************************)
Messages ==
    {Message("object", "element-clicked", << >>),
     Message("object", "pong", << >>),
     Message("object", "inject-instruction", << >>),
     Message("object", "inject-instruction",
             <<Instruction("1", "replaceHTML", SelB, GoodContent, TRUE)>>)}

NextObservers ==
    \/ Connect(NoUrl)
    \/ \E s \in SockIds : OnOpen(s)
    \/ \E s \in SockIds, m \in Messages : OnMessage(s, m)
    \/ \E t \in BOOLEAN : OnElementClick(t)
    \/ \E t \in BOOLEAN : OnInstruction(t)

SpecObservers == Init /\ [][NextObservers]_vars

(***************************************************************************)
(* The service on the default endpoint with callbacks that throw or not,   *)
(* and the two kinds of message that are handed to callbacks.              *)
(***************************************************************************)
CallbackMessages ==
    {Message("object", "element-clicked", << >>),
     Message("object", "inject-instruction",
             <<Instruction("1", "replaceHTML", SelB, GoodContent, TRUE)>>)}

NextCallbacks ==
    \/ Connect(NoUrl)
    \/ \E s \in SockIds : OnOpen(s)
    \/ \E s \in SockIds, m \in CallbackMessages : OnMessage(s, m)
    \/ \E t \in BOOLEAN : OnElementClick(t)
    \/ \E t \in BOOLEAN : OnInstruction(t)

SpecCallbacks == Init /\ [][NextCallbacks]_vars

(***************************************************************************)
(* The connection manager left alone after the first connect(): the caller *)
(* sets the service up, calls connect(u) once, and every attempt fails,    *)
(* with an error event and a close event with an abnormal code, or in the  *)
(* constructor of the transport.  Timers fire and the events of a          *)
(* transport are delivered in the end.                                     *)
(***************************************************************************)
RetryUrls == AllUrls \cup {FtpUrl}
\* connect() was not called yet
Fresh == connectionAttempts = 0 /\ socket = Null /\ timers = << >>

RetryTimer == \E i \in DOMAIN timers : ReconnectTimerFire(i)
RetryError == \E s \in SockIds : OnError(s)
RetryClose == \E s \in SockIds : OnClose(s, AbnormalClosure)

NextRetry ==
    \/ Fresh /\ \E b \in BOOLEAN : SetDynaDubbing(b)
    \/ Fresh /\ OnInstruction(FALSE)
    \/ Fresh /\ \E u \in RetryUrls : Connect(u)
    \/ RetryTimer
    \/ RetryError
    \/ RetryClose

SpecRetry ==
    /\ Init
    /\ [][NextRetry]_vars
    /\ WF_vars(RetryTimer)
    /\ WF_vars(RetryError)
    /\ WF_vars(RetryClose)

(***************************************************************************)
(* The connection manager with retries, registered callbacks and inbound   *)
(* messages that are not a JSON object.                                    *)
(***************************************************************************)
ProtocolErrors == {Message("garbage", "", << >>), Message("null", "", << >>)}

NextProtocol ==
    \/ Connect(NoUrl)
    \/ \E i \in DOMAIN timers : ReconnectTimerFire(i)
    \/ \E s \in SockIds : OnOpen(s)
    \/ \E s \in SockIds, code \in CloseCodes : OnClose(s, code)
    \/ \E s \in SockIds, m \in ProtocolErrors : OnMessage(s, m)
    \/ OnElementClick(FALSE)
    \/ OnInstruction(FALSE)

SpecProtocol == Init /\ [][NextProtocol]_vars

(***************************************************************************)
(* Properties of the connection manager.                                   *)
(***************************************************************************)
Abnormal(code) == code # NormalClosure

\* C1: retry bound.  Between two resets of the counter (a successful open
\* or resetConnectionAttempts) at most maxConnectionAttempts transports are
\* opened, and a connect() call made with the counter at the bound opens no
\* transport and leaves the whole program state as it was.
RetryBound ==
    /\ opens <= maxConnectionAttempts
    /\ (last.op = "connect"
        /\ last.pre.connectionAttempts >= maxConnectionAttempts)
       => (last.same /\ ~ last.created)

\* three transports were opened and closed and the fourth connect() was
\* refused
RetryBoundWitness ==
    /\ last.op = "connect"
    /\ last.pre.connectionAttempts = maxConnectionAttempts
    /\ ~ last.pre.isConnecting
    /\ opens = maxConnectionAttempts
    /\ last.same

\* C2: connect() called while isConnecting opens no transport and changes
\* no state.
NoDuplicateConnect ==
    (last.op = "connect" /\ last.pre.isConnecting)
    => (last.same /\ ~ last.created)

\* connect() was called while an attempt below the bound was in progress
NoDuplicateConnectWitness ==
    /\ last.op = "connect"
    /\ last.pre.isConnecting
    /\ last.pre.connectionAttempts < maxConnectionAttempts
    /\ socket # Null
    /\ socks[socket].rs = "connecting"

\* C3: at most one retry timer is pending in every reachable state.
ReconnectDebounce == Len(timers) <= 1

\* a close handler scheduled a retry while an earlier retry was pending
ReconnectDebounceWitness ==
    /\ last.op = "close"
    /\ Abnormal(last.code)
    /\ last.pre.ntimers = 1
    /\ last.pre.connectionAttempts < maxConnectionAttempts
    /\ Len(timers) = 1

\* C4: after the open callback connectionAttempts = 0, isConnected is true
\* and isConnecting is false.
OpenResetsCounter ==
    last.op = "open"
    => (connectionAttempts = 0 /\ isConnected /\ ~ isConnecting)

\* the open callback fired with connectionAttempts = 2
OpenResetsCounterWitness ==
    /\ last.op = "open"
    /\ last.pre.connectionAttempts = 2
    /\ connectionAttempts = 0

\* C5: after disconnect() the status is Disconnected and no retry timer is
\* pending.
DisconnectForcesDisconnected ==
    last.op = "disconnect"
    => (~ isConnected /\ ~ isConnecting /\ Len(timers) = 0)

\* C6: after disconnect() and until the caller calls connect(), no retry
\* timer is scheduled and no transport is opened.
DisconnectIsFinal ==
    disconnected => (Len(timers) = 0 /\ ~ last.created)

\* C7: once the bound is reached and the last attempt has closed
\* abnormally, and until the caller calls connect() or
\* resetConnectionAttempts(), the manager stays Disconnected with
\* connectionAttempts = maxConnectionAttempts, and no event opens a
\* transport or schedules a retry.
ExhaustedIsTerminal ==
    exhausted
    => /\ ~ isConnected
       /\ ~ isConnecting
       /\ connectionAttempts = maxConnectionAttempts
       /\ ~ last.created
       /\ (last.op \in {"timer", "open", "error", "close"}
           => Len(timers) <= last.pre.ntimers)

\* C8: resetConnectionAttempts() sets connectionAttempts to 0, cancels the
\* pending retry timer and leaves isConnected, isConnecting and the socket
\* reference as they were.
ResetFrame ==
    last.op = "reset"
    => /\ connectionAttempts = 0
       /\ Len(timers) = 0
       /\ ~ reconnectTimer
       /\ isConnected = last.pre.isConnected
       /\ isConnecting = last.pre.isConnecting
       /\ socket = last.pre.socket

\* resetConnectionAttempts() was called during an attempt, with a retry
\* pending and a positive counter
ResetFrameWitness ==
    /\ last.op = "reset"
    /\ last.pre.connectionAttempts > 0
    /\ last.pre.ntimers = 1
    /\ last.pre.isConnecting
    /\ isConnecting

\* C9: sendElementClick transmits only when the status is Connected;
\* otherwise nothing is sent and no state changes.
SendOnlyWhenConnected ==
    last.op = "send"
    => /\ ~ last.same => (last.pre.isConnected /\ ~ last.pre.isConnecting)
       /\ ~ last.pre.isConnected => last.same

\* a descriptor was handed over while isConnected was false although the
\* current transport was open, and was not sent
SendOnlyWhenConnectedWitness ==
    /\ last.op = "send"
    /\ ~ last.pre.isConnected
    /\ socket # Null
    /\ socks[socket].rs = "open"
    /\ last.same

\* C10: no descriptor is transmitted twice, and a descriptor handed over
\* while not connected is never transmitted.
AtMostOnce ==
    /\ \A i, j \in DOMAIN sent : i # j => sent[i] # sent[j]
    /\ \A i \in DOMAIN sent : sent[i] \notin dropped

\* a descriptor was dropped, the manager connected afterwards, and nothing
\* was transmitted
AtMostOnceWitness ==
    /\ dropped # {}
    /\ last.op = "open"
    /\ isConnected
    /\ sent = << >>

(***************************************************************************)
(* Properties of the instruction engine.                                   *)
(***************************************************************************)
\* the last step handed an instruction to handleInstruction
Handled == last.op \in {"call", "message"} /\ lastMsg.m.data # << >>
\* that instruction
Ins == lastMsg.m.data[1]
\* the last step left the document and the records as they were
Untouched == dom = lastMsg.preDom /\ injectedContents = lastMsg.preRecs
\* the instruction has its mandatory fields
WellFormed(ins) == ins.id # "" /\ ins.action # "" /\ ins.selector # NoSelector

\* C11: an instruction with publish = false handled while dubbing is
\* disabled changes neither the document nor the records.
GateSemantics ==
    (Handled /\ ~ Ins.publish /\ ~ isDynaDubbing) => Untouched

\* C12: an instruction without id, action or selector changes neither the
\* document nor the records, whatever its action.
InstructionValidation ==
    (Handled /\ ~ WellFormed(Ins)) => Untouched

\* an append of <b>x</b> to #a without an id was handled
InstructionValidationWitness ==
    /\ Handled
    /\ Ins.id = ""
    /\ Ins.action = "appendHTML"
    /\ Ins.selector = SelA
    /\ Ins.content = GoodContent
    /\ Untouched

\* the element the instruction selects in the document before the step
Target == querySelector(lastMsg.preDom, Ins.selector)
\* the instruction selects an element
Located == ValidSelector(Ins.selector) /\ Target # Null
\* the records stored under id
RecordsOf(id) ==
    {injectedContents[i] : i \in {n \in DOMAIN injectedContents :
                                      injectedContents[n].id = id}}
\* the last step handled an appendHTML that located its element
Appended ==
    /\ Handled
    /\ WellFormed(Ins)
    /\ Ins.action = "appendHTML"
    /\ Ins.content # NoContent
    /\ Located

\* C13 as stated: after a successful appendHTML with content c on an
\* element whose inner markup was m, the inner markup is m followed by c.
AppendVerbatim ==
    Appended
    => innerHTML(dom, Target) = innerHTML(lastMsg.preDom, Target) \o Ins.content

\* C13: after a successful appendHTML with content c on an element whose
\* inner markup was m, the inner markup is m followed by the markup c parses
\* to (c itself when c is well formed), and the record stored under the
\* instruction's id has originalContent = m.
AppendCapture ==
    Appended
    => LET m == innerHTML(lastMsg.preDom, Target)
       IN  /\ innerHTML(dom, Target) = m \o Parse(Ins.content)
           /\ Parse(Ins.content) = Ins.content
                  => innerHTML(dom, Target) = m \o Ins.content
           /\ RecordsOf(Ins.id) # {}
           /\ \A r \in RecordsOf(Ins.id) : r.originalContent = m

\* <b>x</b> was appended to #a, whose inner markup was <i id="b">y</i>
AppendCaptureWitness ==
    /\ Appended
    /\ Ins.selector = SelA
    /\ Ins.content = GoodContent
    /\ innerHTML(dom, Target) = <<O("i", "b"), T("y"), C("i")>> \o GoodContent
    /\ \E r \in RecordsOf(Ins.id) :
           r.originalContent = <<O("i", "b"), T("y"), C("i")>>

\* the elements of a sequence
Range(f) == {f[i] : i \in DOMAIN f}

\* the last step was an inbound message carrying a replaceHTML instruction
\* with publish = true, non-empty content and a selector that matches
ReplaceArrived ==
    /\ last.op = "message"
    /\ Handled
    /\ WellFormed(Ins)
    /\ Ins.action = "replaceHTML"
    /\ Ins.publish
    /\ Ins.content \notin {NoContent, EmptyContent}
    /\ Located

\* C14 as stated: after such a message the inner markup of the element is
\* the content.
ReplaceVerbatim ==
    ReplaceArrived => innerHTML(dom, Target) = Ins.content

\* C14: an inbound inject-instruction message with a replaceHTML instruction
\* (publish = true, non-empty content, matching selector) leaves the
\* element with the markup the content parses to (the content itself when
\* it is well formed) and nothing of its former markup, and getInjections()
\* has a record with the instruction's id whose originalContent is the
\* former markup.
ReplaceEndToEnd ==
    ReplaceArrived
    => /\ innerHTML(dom, Target) = Parse(Ins.content)
       /\ Parse(Ins.content) = Ins.content
              => innerHTML(dom, Target) = Ins.content
       /\ \E r \in Range(getInjections(E)) :
              /\ r.id = Ins.id
              /\ r.originalContent = innerHTML(lastMsg.preDom, Target)

\* while connected, a message replaced the markup y of #b by <b>x</b>
ReplaceEndToEndWitness ==
    /\ ReplaceArrived
    /\ isConnected
    /\ Ins.selector = SelB
    /\ innerHTML(lastMsg.preDom, Target) = <<T("y")>>
    /\ innerHTML(dom, Target) = GoodContent
    /\ \E r \in Range(getInjections(E)) :
           r.id = "2" /\ r.originalContent = <<T("y")>>

\* the actions of the engine
KnownActions == {"appendHTML", "replaceHTML", "removeElement"}

\* C16: an instruction with id and selector and an action that is none of
\* appendHTML, replaceHTML, removeElement changes neither the document nor
\* the records.
UnknownAction ==
    (Handled /\ Ins.id # "" /\ Ins.selector # NoSelector
         /\ Ins.action \notin KnownActions)
    => Untouched

\* frobnicate on #a with content <b>x</b> was handled
UnknownActionWitness ==
    /\ Handled
    /\ Ins.id = "1"
    /\ Ins.action = "frobnicate"
    /\ Ins.selector = SelA
    /\ Ins.content = GoodContent
    /\ Untouched

\* the instruction makes querySelector throw
Faulty(ins) ==
    /\ WellFormed(ins)
    /\ ins.action \in KnownActions
    /\ ins.content \notin {NoContent, EmptyContent}
    /\ ~ ValidSelector(ins.selector)
\* the instruction is valid and selects an element
Applicable ==
    /\ WellFormed(Ins)
    /\ Ins.action \in KnownActions
    /\ Ins.action # "removeElement"
           => Ins.content \notin {NoContent, EmptyContent}
    /\ Located

\* C17: no exception leaves handleInstruction or the message callback; an
\* instruction whose selector is malformed changes nothing; and a valid
\* instruction is applied (its record is stored, its element changed)
\* whatever was handled before it.
FaultIsolation ==
    Handled
    => /\ ~ lastMsg.exc
       /\ Faulty(Ins) => Untouched
       /\ Applicable
              => /\ \E r \in RecordsOf(Ins.id) :
                        r.action = Ins.action /\ r.selector = Ins.selector
                 /\ Ins.action = "removeElement"
                        => querySelector(dom, Ins.selector) # Target
                 /\ Ins.action = "replaceHTML"
                        => innerHTML(dom, Target) = Parse(Ins.content)

\* a message with a malformed selector was followed by a message whose
\* instruction was applied
FaultIsolationWitness ==
    /\ Len(arrived) = 2
    /\ Faulty(arrived[1])
    /\ last.op = "message"
    /\ Handled
    /\ Ins = arrived[2]
    /\ Applicable
    /\ dom # lastMsg.preDom
    /\ RecordsOf(Ins.id) # {}

(***************************************************************************)
(* Properties of the inbound messages.                                     *)
(***************************************************************************)
\* the last step was an inbound message that is not a JSON object
ProtocolError == last.op = "message" /\ lastMsg.m.text # "object"

\* C18: an inbound message that does not parse raises nothing, leaves the
\* connection manager as it was (flags, attempt counter, timers, the
\* transports, which go on delivering messages), invokes no callback,
\* and changes neither the document nor the records.
ProtocolErrorTolerance ==
    ProtocolError
    => /\ ~ lastMsg.exc
       /\ last.same
       /\ socks[last.s].rs \in {"open", "closing"}
       /\ lastMsg.calls = << >>
       /\ Untouched

\* a second message that is not JSON arrived while connected, with a retry
\* timer pending and callbacks of both kinds registered
ProtocolErrorToleranceWitness ==
    /\ ProtocolError
    /\ lastMsg.m.text = "garbage"
    /\ received = 2
    /\ isConnected
    /\ connectionAttempts > 0
    /\ Len(timers) > 0
    /\ Len(onElementClickCallbacks) > 0
    /\ Len(onInstructionCallbacks) > 0

\* the engine after the instructions of seq, applied one after the other
RECURSIVE Replay(_, _)
Replay(e, seq) ==
    IF seq = << >> THEN e
    ELSE Replay(handleInstruction(e, Head(seq)), Tail(seq))

\* the engine of a new service
NewEngine == [dom |-> Page, injectedContents |-> << >>,
              isDynaDubbing |-> FALSE, exc |-> FALSE]

\* C19: the document and the records are those obtained by applying the
\* instructions that arrived one after the other in arrival order, and the
\* callbacks of an instruction are notified in the step that applies it.
InstructionOrdering ==
    /\ dom = Replay(NewEngine, arrived).dom
    /\ injectedContents = Replay(NewEngine, arrived).injectedContents
    /\ (last.op = "message" /\ Handled)
           => lastMsg.calls = UpTo(Len(onInstructionCallbacks))

\* two instructions arrived whose order matters, with a callback notified
InstructionOrderingWitness ==
    /\ Len(arrived) = 2
    /\ last.op = "message"
    /\ Handled
    /\ lastMsg.calls = <<1>>
    /\ Replay(NewEngine, <<arrived[2], arrived[1]>>).dom # dom
    /\ Replay(NewEngine, <<arrived[2], arrived[1]>>).injectedContents
           # injectedContents

\* C20: for an inbound element-clicked message every callback registered
\* with onElementClick, and for an inbound inject-instruction message that
\* carries an instruction every callback registered with onInstruction, is
\* invoked once, in registration order.
ObserverNotification ==
    (last.op = "message" /\ lastMsg.m.text = "object")
    => /\ lastMsg.m.type = "element-clicked"
              => lastMsg.calls = UpTo(Len(onElementClickCallbacks))
       /\ (lastMsg.m.type = "inject-instruction" /\ lastMsg.m.data # << >>)
              => lastMsg.calls = UpTo(Len(onInstructionCallbacks))

(***************************************************************************)
(* Further properties of the connection manager.                           *)
(***************************************************************************)
\* the last step took connectionAttempts from a positive value to 0
CounterCleared == last.pre.connectionAttempts > 0 /\ connectionAttempts = 0

\* C24 as stated: a step that takes connectionAttempts from a positive
\* value to 0 is the open callback of a transport.
ResetOnlyByOpen == CounterCleared => last.op = "open"

\* C24: a step that takes connectionAttempts from a positive value to 0 is
\* the open callback of a transport or a call of resetConnectionAttempts().
ResetOnlyByOpenOrReset == CounterCleared => last.op \in {"open", "reset"}

\* the open callback cleared a counter that had reached the bound
ResetOnlyByOpenOrResetWitness ==
    /\ CounterCleared
    /\ last.op = "open"
    /\ last.pre.connectionAttempts = maxConnectionAttempts

\* C25: a call of disconnect() that follows a call of disconnect() changes
\* nothing (and so closes no transport), and a call of disconnect() while
\* the transport of the manager is open starts its closing handshake with
\* the normal-closure code.
DisconnectIdempotent ==
    [][last'.op = "disconnect"
         => /\ last.op = "disconnect" => progVars' = progVars
            /\ (socket # Null /\ socks[socket].rs = "open")
                   => /\ socks'[socket].rs = "closing"
                      /\ socks'[socket].closeCode = NormalClosure]_vars

\* disconnect() was called and changed nothing, the transport closed by an
\* earlier call being in its closing handshake with code 1000
DisconnectIdempotentWitness ==
    /\ last.op = "disconnect"
    /\ last.same
    /\ socket = Null
    /\ \E s \in SockIds :
           socks[s].rs = "closing" /\ socks[s].closeCode = NormalClosure

\* the url connect works with when the caller gives u
Given(u) == IF u = NoUrl THEN DefaultUrl ELSE u
\* the endpoint of a transport for url u: http: becomes ws:, https: becomes
\* wss:, anything else is left as it is
Endpoint(u) ==
    CASE HasPrefix(u, <<"h", "t", "t", "p", "s", ":">>) ->
             <<"w", "s", "s">> \o SubSeq(u, 6, Len(u))
      [] HasPrefix(u, <<"h", "t", "t", "p", ":">>) ->
             <<"w", "s">> \o SubSeq(u, 5, Len(u))
      [] OTHER -> u

\* C26: every transport is opened at the endpoint of the url its connect
\* call worked with, a call that opens a transport works with the url given
\* (the default url when none is given), every pending retry holds a url as
\* it was given, and the retry scheduled by a close holds the url of the
\* attempt that closed.
EndpointNormalisation ==
    /\ [](/\ \A s \in Live(socks) :
                socks[s].endpoint = Endpoint(socks[s].url)
          /\ (last.op \in {"connect", "timer"} /\ last.created)
                 => socks[socket].url = Given(last.url)
          /\ \A i \in DOMAIN timers :
                timers[i].url \in {Given(u) : u \in AllUrls})
    /\ [][(/\ last'.op = "close"
           /\ last'.code # NormalClosure
           /\ connectionAttempts < maxConnectionAttempts)
              => timers'[Len(timers')].url = socks[last'.s].url]_vars

\* the retry of an attempt at an https: url opened a transport at the wss:
\* endpoint
EndpointNormalisationWitness ==
    /\ last.op = "timer"
    /\ last.created
    /\ last.url = HttpsUrl
    /\ socks[socket].url = HttpsUrl
    /\ socks[socket].endpoint = WssUrl

\* C27: the close callback of a transport leaves isConnected and
\* isConnecting false and connectionAttempts as it was; when the code is not
\* 1000 and connectionAttempts is below the bound, one retry timer, held by
\* the manager, is pending afterwards; otherwise the timers are as they were.
CloseHandling ==
    [][last'.op = "close"
         => /\ ~ isConnected' /\ ~ isConnecting'
            /\ connectionAttempts' = connectionAttempts
            /\ IF last'.code # NormalClosure
                  /\ connectionAttempts < maxConnectionAttempts
               THEN /\ Len(timers') = 1
                    /\ timers'[1].cur
                    /\ reconnectTimer'
               ELSE /\ timers' = timers
                    /\ reconnectTimer' = reconnectTimer]_vars

\* the second attempt closed abnormally while it was connecting and its
\* retry is pending
CloseHandlingWitness ==
    /\ last.op = "close"
    /\ last.code = AbnormalClosure
    /\ last.pre.isConnecting
    /\ last.pre.ntimers = 0
    /\ connectionAttempts = 2
    /\ Len(timers) = 1
    /\ ~ isConnected /\ ~ isConnecting

\* C28: the error callback of a transport leaves isConnected false and
\* changes neither isConnecting, connectionAttempts, the retry timer and its
\* handle, the transport of the manager, nor the set of live transports.
ErrorHandling ==
    [][last'.op = "error"
         => /\ ~ isConnected'
            /\ UNCHANGED <<socket, isConnecting, connectionAttempts,
                           reconnectTimer, timers, sent>>
            /\ Live(socks') = Live(socks)]_vars

\* the error callback fired while connected with attempts made and took
\* isConnected away
ErrorHandlingWitness ==
    /\ last.op = "error"
    /\ last.pre.isConnected
    /\ ~ isConnected
    /\ connectionAttempts > 0
    /\ Len(timers) = last.pre.ntimers

(***************************************************************************)
(* Further properties of the instruction engine.                           *)
(***************************************************************************)
\* C29: an appendHTML or replaceHTML instruction with publish = true whose
\* content is missing or is the empty string changes neither the document
\* nor the records.
ContentRequired ==
    (/\ Handled
     /\ Ins.publish
     /\ Ins.action \in {"appendHTML", "replaceHTML"}
     /\ Ins.content \in {NoContent, EmptyContent})
    => Untouched

\* the markup of d before position i, and after the element at i
Before(d, i) == SubSeq(d, 1, i - 1)
After(d, i) == SubSeq(d, EndOf(d, i) + 1, Len(d))
\* the last n tokens of d
Last(d, n) == SubSeq(d, Len(d) - n + 1, Len(d))

\* C30: an instruction whose selector matches no element changes neither
\* the document nor the records; one whose selector matches changes nothing
\* outside the first matching element, other matching elements included.
Locate ==
    (Handled /\ ValidSelector(Ins.selector))
    => IF Target = Null THEN Untouched
       ELSE /\ Before(dom, Target) = Before(lastMsg.preDom, Target)
            /\ Last(dom, Len(After(lastMsg.preDom, Target)))
                   = After(lastMsg.preDom, Target)

\* an append to a selector that matches nothing was handled
LocateWitness ==
    /\ Handled
    /\ WellFormed(Ins)
    /\ Ins.action = "appendHTML"
    /\ Ins.selector = SelNone
    /\ Ins.content = GoodContent
    /\ Untouched

\* the selector i matched two elements and the first one only was removed
LocateFirstOnly ==
    /\ Handled
    /\ Ins.selector = SelI
    /\ Ins.action = "removeElement"
    /\ Cardinality(Matches(lastMsg.preDom, SelI)) = 2
    /\ Cardinality(Matches(dom, SelI)) = 1
    /\ querySelector(dom, SelC) # Null

(***************************************************************************)
(* C21  Tracking toggles are idempotent: enabling the tracker when it is   *)
(* enabled and disabling it when it is disabled change nothing, and the    *)
(* document has exactly one click listener of the tracker when tracking is *)
(* enabled and none when it is not.                                        *)
(***************************************************************************)
TrackingToggles ==
    /\ [](/\ Len(listeners) = (IF enabled THEN 1 ELSE 0)
          /\ (throttledClickHandler # Null) = enabled)
    /\ [][/\ (last'.op = "enable" /\ enabled)
               => UNCHANGED <<trackerState, progVars>>
          /\ (last'.op = "disable" /\ ~ enabled)
               => UNCHANGED <<trackerState, progVars>>]_vars

\* enableElementTracking() was called when tracking was enabled
TrackingTogglesWitness ==
    /\ lastTrack.op = "enable"
    /\ lastTrack.same
    /\ enabled
    /\ Len(listeners) = 1

\* the last step was a click event that came after a processed click
ClickAfterProcessed == lastTrack.op = "click" /\ ~ lastTrack.first

\* C22 as stated: a click is processed only a throttle delay or more after
\* the last processed click, whatever happened in between.
ClickThrottleAnyWindow ==
    (ClickAfterProcessed /\ lastTrack.handled # << >>)
        => lastTrack.gap >= throttleDelay

(***************************************************************************)
(* C22  Click throttle: as long as tracking was not enabled anew since the *)
(* last processed click, a click is processed (highlighted and reported)   *)
(* only 300 time units or more after that click, and at most once; a click *)
(* that comes earlier is dropped: it changes nothing and leaves nothing    *)
(* behind that could process it later.                                     *)
(***************************************************************************)
ClickThrottle ==
    (ClickAfterProcessed /\ ~ lastTrack.fresh) =>
        /\ Len(lastTrack.handled) <= 1
        /\ lastTrack.handled # << >> => lastTrack.gap >= throttleDelay
        /\ lastTrack.gap < throttleDelay =>
               /\ lastTrack.handled = << >>
               /\ lastTrack.same
               /\ last.same

\* a click on an element was dropped one unit before the window ended
ClickThrottleWitness ==
    /\ ClickAfterProcessed
    /\ ~ lastTrack.fresh
    /\ enabled
    /\ lastTrack.el \in Elements
    /\ lastTrack.gap = throttleDelay - 1
    /\ lastTrack.handled = << >>

\* the elements that carry the click outline
Highlighted == {el \in Elements : style[el].outline = HighlightStyle.outline}

(***************************************************************************)
(* C23  Only the last clicked element stays highlighted: at most one       *)
(* element carries the click outline at any time, and after a processed    *)
(* click it is the element of that click.                                  *)
(***************************************************************************)
OnlyLastHighlighted ==
    /\ Cardinality(Highlighted) <= 1
    /\ (lastTrack.op = "click" /\ lastTrack.handled # << >>)
           => Highlighted = {lastTrack.el}

(***************************************************************************)
(* Properties of the records.                                              *)
(***************************************************************************)
\* the last step handled an instruction that changed the document
Mutated == Handled /\ dom # lastMsg.preDom
\* the markup a record of the instruction has to keep
Captured ==
    IF Ins.action = "removeElement" THEN outerHTML(lastMsg.preDom, Target)
    ELSE innerHTML(lastMsg.preDom, Target)
\* the ids of the records
RecordIds(recs) == {recs[i].id : i \in DOMAIN recs}
\* what getInjections() returns has one record under the instruction's id,
\* with its action and selector and the markup captured; with its content
\* too if the action is one of withContent
Recorded(withContent) ==
    /\ \E r \in RecordsOf(Ins.id) : RecordsOf(Ins.id) = {r}
    /\ \A r \in Range(getInjections(E)) :
           r.id = Ins.id
           => /\ r.action = Ins.action
              /\ r.selector = Ins.selector
              /\ r.originalContent = Captured
              /\ Ins.action \in withContent => r.content = Ins.content
\* the state part of record keeping
RecordsKept(withContent) ==
    /\ Mutated => Recorded(withContent)
    /\ (Handled /\ injectedContents # lastMsg.preRecs)
           => /\ WellFormed(Ins)
              /\ Ins.action \in KnownActions
              /\ Located
              /\ Recorded(withContent)
    /\ Cardinality(RecordIds(injectedContents)) = Len(injectedContents)
\* the step part: a step that handles no instruction leaves the records as
\* they are, and no step removes a record or the id of one
RecordsGrow ==
    /\ last'.op \notin {"call", "message"}
           => injectedContents' = injectedContents
    /\ RecordIds(injectedContents) \subseteq RecordIds(injectedContents')
    /\ Len(injectedContents) <= Len(injectedContents')

\* C31 as stated: the record of every action holds the content of its
\* instruction.
RecordKeepingContent ==
    /\ [] RecordsKept(KnownActions)
    /\ [][RecordsGrow]_vars

(***************************************************************************)
(* C31  Record keeping: every instruction that changes the document        *)
(* inserts or overwrites the one record stored under its id, which holds   *)
(* its action, its selector, the markup captured before the change and,    *)
(* for appendHTML and replaceHTML, its content (the record of a            *)
(* removeElement has no content); the records change only when an          *)
(* instruction locates its element, and no step (disconnect, reset,        *)
(* reconnect, a failed instruction) removes a record: the recorded ids     *)
(* never shrink and there is one record for each id.                       *)
(***************************************************************************)
RecordKeeping ==
    /\ [] RecordsKept({"appendHTML", "replaceHTML"})
    /\ [][RecordsGrow]_vars

\* after two applied instructions with ids 1 and 2, the caller disconnected
\* and both records are still there
RecordKeepingWitness ==
    /\ last.op = "disconnect"
    /\ RecordIds(injectedContents) = {"1", "2"}
    /\ Len(injectedContents) = 2
    /\ dom # Page

(***************************************************************************)
(* Properties of the connection manager under every interleaving.          *)
(***************************************************************************)
\* the transports that are neither opened nor closed, nor being closed
Connecting == {i \in SockIds : socks[i].rs = "connecting"}

\* C32: in every reachable state at most one transport is in the
\* connecting phase.
SerializedConnect == Cardinality(Connecting) <= 1

\* the step is a call of connect, by the caller or by a retry timer, that
\* is not refused
AttemptStarted ==
    /\ last'.op \in {"connect", "timer"}
    /\ ~ isConnecting
    /\ connectionAttempts < maxConnectionAttempts

(***************************************************************************)
(* C33  Counter bound: 0 <= connectionAttempts <= maxConnectionAttempts in *)
(* every reachable state, and connectionAttempts grows only by one and     *)
(* only in a call of connect that starts an attempt.                       *)
(***************************************************************************)
CounterBound ==
    /\ [](connectionAttempts \in 0..maxConnectionAttempts)
    /\ [][/\ connectionAttempts' > connectionAttempts
               => AttemptStarted /\ connectionAttempts' = connectionAttempts + 1
          /\ AttemptStarted => connectionAttempts' = connectionAttempts + 1]_vars

\* the third attempt was started
CounterBoundWitness ==
    /\ last.op \in {"connect", "timer"}
    /\ last.pre.connectionAttempts = maxConnectionAttempts - 1
    /\ ~ last.pre.isConnecting
    /\ connectionAttempts = maxConnectionAttempts

\* C34: isConnected and isConnecting are never both true.
WellDefinedStatus == ~ (isConnected /\ isConnecting)

\* the last step was an event of a transport while the manager referenced
\* another one
StaleEvent ==
    /\ last.op \in {"open", "close", "error"}
    /\ last.pre.socket # Null
    /\ last.s # last.pre.socket

\* C35: an open, close or error event of a transport the manager no
\* longer references changes none of isConnected, isConnecting and
\* connectionAttempts and schedules no retry.
StaleEventsHarmless ==
    StaleEvent
    => /\ isConnected = last.pre.isConnected
       /\ isConnecting = last.pre.isConnecting
       /\ connectionAttempts = last.pre.connectionAttempts
       /\ Len(timers) <= last.pre.ntimers

(***************************************************************************)
(* C36  disconnect() leaves connectionAttempts as it is; once the retry    *)
(* bound is exhausted a connect(), after a disconnect() too, is refused    *)
(* and changes nothing, and the counter goes down only in an open event or *)
(* in resetConnectionAttempts().                                           *)
(***************************************************************************)
DisconnectKeepsAttempts ==
    [][/\ last'.op = "disconnect"
           => connectionAttempts' = connectionAttempts
       /\ (last'.op = "connect"
               /\ connectionAttempts >= maxConnectionAttempts)
           => UNCHANGED progVars
       /\ connectionAttempts' < connectionAttempts
           => last'.op \in {"open", "reset"}]_vars

\* disconnect() was called with a transport at hand after the retry bound
\* was exhausted, and the counter is still at the bound
DisconnectKeepsAttemptsWitness ==
    /\ last.op = "disconnect"
    /\ last.pre.socket # Null
    /\ last.pre.connectionAttempts = maxConnectionAttempts
    /\ connectionAttempts = maxConnectionAttempts
    /\ ~ isConnecting
    /\ socket = Null

(***************************************************************************)
(* Properties of the highlight and of the throttle.                        *)
(***************************************************************************)
\* C37: once all highlight timers have fired, outline, outlineOffset and
\* transition of every element are what they were before the first click.
HighlightUndone ==
    highlightTimers = << >> => \A el \in Elements : style[el] = OriginalStyle

\* the last step was a click on an element less than a throttle delay
\* after a click on body, with the same listener registered
ClickAfterBody ==
    /\ lastTrack.op = "click"
    /\ lastTrack.el \in Elements
    /\ lastTrack.afterBody
    /\ lastTrack.sinceBody < throttleDelay
\* a click on body is neither highlighted nor reported
BodyIgnored ==
    (lastTrack.op = "click" /\ lastTrack.el = "body")
        => lastTrack.handled = << >> /\ lastTrack.quiet

CallbackIsolation ==
    (last.op = "message" /\ lastMsg.m.text = "object")
    => /\ ~ lastMsg.exc
       /\ last.same
       /\ (lastMsg.m.type = "inject-instruction" /\ lastMsg.m.data # << >>)
              => lastMsg.calls = UpTo(Len(onInstructionCallbacks))

\* an instruction arrived with two callbacks registered, the first of which
\* throws: both were called
CallbackIsolationWitness ==
    /\ last.op = "message"
    /\ lastMsg.m.type = "inject-instruction"
    /\ lastMsg.m.data # << >>
    /\ onInstructionCallbacks = <<TRUE, FALSE>>
    /\ lastMsg.calls = <<1, 2>>
    /\ ~ lastMsg.exc
    /\ isConnected

\* nothing is connected or connecting, the attempts are used up and no
\* retry timer is pending
Quiescent ==
    /\ ~ isConnected
    /\ ~ isConnecting
    /\ connectionAttempts = maxConnectionAttempts
    /\ Len(timers) = 0

(***************************************************************************)
(* C40  Retrying terminates: when every attempt fails and the caller makes *)
(* no call after the first connect(), then, timers and transport events    *)
(* being delivered, the manager reaches a state with isConnected = false,  *)
(* isConnecting = false, connectionAttempts = maxConnectionAttempts and no *)
(* retry timer pending, and stays there.                                   *)
(***************************************************************************)
RetryingTerminates == (~ Fresh) ~> [] Quiescent

\* the third attempt was closed with an abnormal code and the manager is
\* quiescent
RetryingTerminatesWitness ==
    /\ Quiescent
    /\ last.op = "close"
    /\ last.code = AbnormalClosure
    /\ last.pre.isConnecting
    /\ \A i \in SockIds : socks[i].rs = "closed"

TypeOK ==
    /\ socket \in SockIds \cup {Null}
    /\ isConnected \in BOOLEAN
    /\ isConnecting \in BOOLEAN
    /\ connectionAttempts \in Nat
    /\ reconnectTimer \in BOOLEAN
    /\ nextClick \in 0..MaxClicks
    /\ enabled \in BOOLEAN
    /\ throttledClickHandler \in DOMAIN listeners \cup {Null}
    /\ DOMAIN style = Elements
    /\ now \in Nat
    /\ ticks \in 0..MaxTicks
====
